---- MODULE Spec2Model ----
(***************************************************************************)
(* A model of docs/source/examples/example_doc_generator.py: the walk of   *)
(* the examples tree in main, and generate_example_doc with its capture    *)
(* step, its docstring extraction and its templated document.              *)
(*                                                                         *)
(* Text is a sequence of one-character strings.  A document is a sequence  *)
(* in which the literal text of a template is kept in chunks (strings of   *)
(* several characters) and every substituted field is spelled out          *)
(* character by character.                                                 *)
(***************************************************************************)
EXTENDS Integers, Sequences, FiniteSets, TLC

VARIABLES
    files,             \* the examples tree: the regular files, in os.walk order
    white_list,        \* main's argument
    sys_path,          \* sys.path
    cache_dirs,        \* the directories that hold an __enamlcache__ directory
    docs,              \* the files under docs_path: a function path -> content
    pc,                \* where the run is
    idx,               \* main's position in the walk (index into files)
    old_python_path,   \* generate_example_doc's local
    snapshot_success,  \* generate_example_doc's local
    raised,            \* the exception that left main ("" while there is none)
    passed,            \* history: the files handed to generate_example_doc
    captured,          \* history: the files whose import was attempted
    written,           \* history: the files whose document was written
    images,            \* the image files the snapshots saved
    last_capture,      \* history: what the last import and snapshot did
    cleanup_miss,      \* history: the last cleanup found no cache directory
    script_text,       \* the text read from the example file
    extracted          \* the outcome of extract_docstring(script_text)

vars == <<files, white_list, sys_path, cache_dirs, docs, pc, idx,
          old_python_path, snapshot_success, raised, passed, captured,
          written, images, last_capture, cleanup_miss, script_text,
          extracted>>

---------------------------------------------------------------------------
(* Bounds *)

\* The tree holds at most this many regular files.
MaxFiles == 3

\* The longest source text handed to extract_docstring in SpecExtract.
MaxLen == 10

---------------------------------------------------------------------------
(* Strings, as Python's str and bytes methods compute them *)

NL == "\n"

\* The character U+0060, which a TLA+ string cannot hold.
BACKQUOTE == "<backquote>"
QUOTE == "\""

Whitespace == {" ", "\n", "\t", "\r"}

LowerLetters == <<"a","b","c","d","e","f","g","h","i","j","k","l","m",
                  "n","o","p","q","r","s","t","u","v","w","x","y","z">>

UpperLetters == <<"A","B","C","D","E","F","G","H","I","J","K","L","M",
                  "N","O","P","Q","R","S","T","U","V","W","X","Y","Z">>

Range(s) == {s[i] : i \in DOMAIN s}

IndexIn(c, s) == CHOOSE i \in DOMAIN s : s[i] = c

\* s.startswith(p, at) with at counted from 1
StartsWithAt(s, p, at) ==
    /\ at + Len(p) - 1 <= Len(s)
    /\ SubSeq(s, at, at + Len(p) - 1) = p

\* s.endswith(p)
EndsWith(s, p) ==
    /\ Len(p) <= Len(s)
    /\ SubSeq(s, Len(s) - Len(p) + 1, Len(s)) = p

\* s.find(p): the 0-based index of the leftmost occurrence, -1 when none
PyFind(s, p) ==
    LET hits == {i \in 1..(Len(s) + 1) : StartsWithAt(s, p, i)}
    IN  IF hits = {} THEN -1
        ELSE (CHOOSE i \in hits : \A j \in hits : i <= j) - 1

\* s[:n] for any integer n
PyPrefix(s, n) ==
    LET m == IF n < 0 THEN Len(s) + n ELSE n
        k == IF m < 0 THEN 0 ELSE IF m > Len(s) THEN Len(s) ELSE m
    IN  SubSeq(s, 1, k)

\* s[n:] for n >= -1
PySuffix(s, n) ==
    LET m == IF n < 0 THEN Len(s) + n ELSE n
        k == IF m < 0 THEN 0 ELSE IF m > Len(s) THEN Len(s) ELSE m
    IN  SubSeq(s, k + 1, Len(s))

\* s.split(sep): cut at the leftmost occurrence, go on after it
RECURSIVE PySplit(_, _)
PySplit(s, sep) ==
    LET i == PyFind(s, sep)
    IN  IF i = -1 THEN <<s>>
        ELSE <<SubSeq(s, 1, i)>> \o
             PySplit(SubSeq(s, i + Len(sep) + 1, Len(s)), sep)

\* s.replace(old, new): every occurrence, leftmost first, none overlapping
RECURSIVE PyReplace(_, _, _)
PyReplace(s, old, new) ==
    LET i == PyFind(s, old)
    IN  IF i = -1 THEN s
        ELSE SubSeq(s, 1, i) \o new \o
             PyReplace(SubSeq(s, i + Len(old) + 1, Len(s)), old, new)

\* s.lstrip()
RECURSIVE PyLstrip(_)
PyLstrip(s) ==
    IF s # <<>> /\ Head(s) \in Whitespace THEN PyLstrip(Tail(s)) ELSE s

\* s.rstrip()
RECURSIVE PyRstrip(_)
PyRstrip(s) ==
    IF s # <<>> /\ s[Len(s)] \in Whitespace
    THEN PyRstrip(SubSeq(s, 1, Len(s) - 1)) ELSE s

\* s.strip()
PyStrip(s) == PyRstrip(PyLstrip(s))

\* data.splitlines() of a bytes object: lines end at \n, \r or \r\n, and
\* the line ends are dropped
RECURSIVE PySplitLines(_)
PySplitLines(s) ==
    IF s = <<>> THEN <<>>
    ELSE LET ends == {i \in DOMAIN s : s[i] \in {"\n", "\r"}}
         IN  IF ends = {} THEN <<s>>
             ELSE LET i == CHOOSE e \in ends : \A j \in ends : e <= j
                      n == IF s[i] = "\r" /\ i < Len(s) /\ s[i + 1] = "\n"
                           THEN i + 1 ELSE i
                  IN  <<SubSeq(s, 1, i - 1)>> \o
                      PySplitLines(SubSeq(s, n + 1, Len(s)))

IsLower(c) == c \in Range(LowerLetters)
IsUpper(c) == c \in Range(UpperLetters)
ToUpper(c) == IF IsLower(c) THEN UpperLetters[IndexIn(c, LowerLetters)] ELSE c
ToLower(c) == IF IsUpper(c) THEN LowerLetters[IndexIn(c, UpperLetters)] ELSE c

\* s.title(): a cased character is upper after an uncased one, lower after
\* a cased one
PyTitle(s) ==
    [i \in DOMAIN s |->
        IF i > 1 /\ (IsLower(s[i - 1]) \/ IsUpper(s[i - 1]))
        THEN ToLower(s[i]) ELSE ToUpper(s[i])]

---------------------------------------------------------------------------
(* os.path *)

SEP == "/"

LastSep(p) ==
    LET at == {i \in DOMAIN p : p[i] = SEP}
    IN  IF at = {} THEN 0 ELSE CHOOSE i \in at : \A j \in at : j <= i

\* os.path.basename(p)
basename(p) == SubSeq(p, LastSep(p) + 1, Len(p))

RECURSIVE RstripSep(_)
RstripSep(p) ==
    IF p # <<>> /\ p[Len(p)] = SEP
    THEN RstripSep(SubSeq(p, 1, Len(p) - 1)) ELSE p

\* os.path.dirname(p)
dirname(p) ==
    LET head == SubSeq(p, 1, LastSep(p))
    IN  IF head # <<>> /\ Range(head) # {SEP} THEN RstripSep(head) ELSE head

\* os.path.join(a, b)
join(a, b) ==
    IF b # <<>> /\ Head(b) = SEP THEN b
    ELSE IF a = <<>> \/ a[Len(a)] = SEP THEN a \o b
    ELSE a \o <<SEP>> \o b

---------------------------------------------------------------------------
(* The module's constants *)

TRIPLE_QUOTE == <<QUOTE, QUOTE, QUOTE>>

MARKER == <<"<","<"," ","a","u","t","o","d","o","c","-","m","e"," ",">",">">>

ENAML_EXT == <<".","e","n","a","m","l">>

EXAMPLES == <<"e","x","a","m","p","l","e","s">>

ENAML_CACHE == <<"_","_","e","n","a","m","l","c","a","c","h","e","_","_">>

IDENT_CHARS == Range(LowerLetters) \cup Range(UpperLetters) \cup {"_"}

IMAGE_REF == ".. image:: images/"

\* SCREENSHOT_RST_TEMPLATE.format(name=name)
SCREENSHOT_RST_TEMPLATE(name) ==
    <<NL,
      "Screenshot\n-------------------------------------------------------------------------------\n\n",
      IMAGE_REF>> \o name \o <<NL>>

\* EXAMPLE_DOC_RST_TEMPLATE.format(title=.., name=.., path=..,
\* docstring_rst=.., screenshot_rst=..)
EXAMPLE_DOC_RST_TEMPLATE(title, name, path, docstring_rst, screenshot_rst) ==
    <<NL,
      "..\n  NOTE: This RST file was generated by ", BACKQUOTE,
      "make examples", BACKQUOTE,
      ".\n  Do not edit it directly.\n  See docs/source/examples/example_doc_generator.py\n\n">>
    \o title \o
    <<" Example\n===============================================================================\n\n">>
    \o docstring_rst \o
    <<"\n\n.. TIP:: To see this example in action, download it from\n :download:",
      BACKQUOTE>>
    \o name \o <<" <../../../">> \o path \o
    <<">", BACKQUOTE, "\n and run::\n\n   $ enaml-run ">>
    \o name \o <<".enaml\n\n">>
    \o screenshot_rst \o
    <<"Example Enaml Code\n-------------------------------------------------------------------------------\n.. literalinclude:: ../../../">>
    \o path \o
    <<"\n    :language: enaml\n">>

---------------------------------------------------------------------------
(* The module's functions *)

\* An outcome of a call: the value returned, or the exception raised.
Returned(v) == [raised |-> "", value |-> v]
Raised(e) == [raised |-> e, value |-> <<>>]

\* A slip of the index: the text before the first delimiter
extract_docstring_before(text) ==
    LET parts == PySplit(text, TRIPLE_QUOTE)
    IN  IF Len(parts) >= 2 THEN Returned(parts[1]) ELSE Raised("IndexError")

\* extract_docstring: script_text.split('"""')[1]
extract_docstring(text) ==
    LET parts == PySplit(text, TRIPLE_QUOTE)
    IN  IF Len(parts) >= 2 THEN Returned(parts[2]) ELSE Raised("IndexError")

\* The length of the longest prefix of s made of [A-Za-z_]
RECURSIVE IdentRun(_)
IdentRun(s) ==
    IF s # <<>> /\ Head(s) \in IDENT_CHARS THEN 1 + IdentRun(Tail(s)) ELSE 0

\* re.sub(r"`(?P<identifier>[A-Za-z_]+)`", r"``\g<identifier>``", s)
RECURSIVE DoubleBackquotes(_)
DoubleBackquotes(s) ==
    IF s = <<>> THEN <<>>
    ELSE LET n == IdentRun(Tail(s))
         IN  IF Head(s) = BACKQUOTE /\ n >= 1 /\ Len(s) >= n + 2 /\ s[n + 2] = BACKQUOTE
             THEN <<BACKQUOTE, BACKQUOTE>> \o SubSeq(s, 2, n + 1) \o <<BACKQUOTE, BACKQUOTE>> \o
                  DoubleBackquotes(SubSeq(s, n + 3, Len(s)))
             ELSE <<Head(s)>> \o DoubleBackquotes(Tail(s))

\* clean_docstring
clean_docstring(docstring) ==
    DoubleBackquotes(PyStrip(PyReplace(docstring, MARKER \o <<NL>>, <<>>)))

---------------------------------------------------------------------------
(* generate_example_doc: the names and paths it derives *)

\* script_name: the base name up to its first '.'
script_name(script_path) ==
    LET b == basename(script_path)
    IN  PyPrefix(b, PyFind(b, <<".">>))

\* script_title
script_title(name) == PyTitle(PyReplace(name, <<"_">>, <<" ">>))

\* script_image_name
script_image_name(name) == <<"e","x","_">> \o name \o <<".","p","n","g">>

\* image_path
image_path(docs_path, name) ==
    join(join(docs_path, <<"i","m","a","g","e","s">>), script_image_name(name))

\* One output path for every example
rst_path_fixed(docs_path, name) ==
    join(docs_path, <<"e","x","_",".","r","s","t">>)

\* rst_path
rst_path(docs_path, name) ==
    join(docs_path, <<"e","x","_">> \o name \o <<".","r","s","t">>)

\* relative_script_path
relative_script_path(script_path) ==
    PyReplace(PySuffix(script_path, PyFind(script_path, EXAMPLES)),
              <<"\\">>, <<SEP>>)

\* enaml_cache_dir
enaml_cache_dir(script_path) == join(dirname(script_path), ENAML_CACHE)

\* The screenshot block whatever the capture did
screenshot_rst_always(success, image_name) ==
    SCREENSHOT_RST_TEMPLATE(image_name)

\* screenshot_rst
screenshot_rst(success, image_name) ==
    IF ~success THEN <<>> ELSE SCREENSHOT_RST_TEMPLATE(image_name)

\* example_doc_rst.lstrip(), for a docstring that was extracted
example_doc_rst(script_path, docstring, success) ==
    LET name == script_name(script_path)
    IN  PyLstrip(EXAMPLE_DOC_RST_TEMPLATE(
            script_title(name), name, relative_script_path(script_path),
            clean_docstring(docstring),
            screenshot_rst(success, script_image_name(name))))

\* A cleanup that removes nothing
rmtree_keeps(dirs, d) ==
    IF d \in dirs THEN Returned(dirs) ELSE Raised("FileNotFoundError")

\* shutil.rmtree(d) on the set of directories that exist: the set without d,
\* or the error of a directory that is not there
rmtree(dirs, d) ==
    IF d \in dirs THEN Returned(dirs \ {d}) ELSE Raised("FileNotFoundError")

---------------------------------------------------------------------------
(* main: the choice of the files *)

\* f.endswith('.enaml')
HasEnamlExt(f) == EndsWith(f, ENAML_EXT)

\* not white_list or any([f.endswith(w) for w in white_list])
InWhiteList(fname, wl) ==
    wl = <<>> \/ \E i \in DOMAIN wl : EndsWith(fname, wl[i])

\* The marker looked for anywhere in the data
HasMarkerAnywhere(data) == PyFind(data, MARKER) # -1

\* b'<< autodoc-me >>' in data.splitlines()
HasMarkerLine(data) == MARKER \in Range(PySplitLines(data))

\* The path main builds for a file of the walk
fname(file) == join(file.dirname, file.name)

\* Whether main hands the file to generate_example_doc
IsSelected(file, wl) ==
    /\ HasEnamlExt(file.name)
    /\ InWhiteList(fname(file), wl)
    /\ HasMarkerLine(file.data)

\* A loop that swallows the exception and goes on with the next file
AfterException_continue(i) == [pc |-> "walk", idx |-> i + 1]

\* main calls generate_example_doc in no try block: an exception that
\* leaves the call leaves main, at file i of the walk
AfterException(i) == [pc |-> "raised", idx |-> i]

RECURSIVE Resolve(_, _)
Resolve(parts, acc) ==
    IF parts = <<>> THEN acc
    ELSE IF Head(parts) \in {<<>>, <<".">>} THEN Resolve(Tail(parts), acc)
    ELSE IF Head(parts) = <<".", ".">>
         THEN Resolve(Tail(parts), PyPrefix(acc, -1))
    ELSE Resolve(Tail(parts), Append(acc, Head(parts)))

RECURSIVE JoinAll(_)
JoinAll(parts) ==
    IF parts = <<>> THEN <<>> ELSE <<SEP>> \o Head(parts) \o JoinAll(Tail(parts))

\* os.path.realpath of an absolute path in a tree without symbolic links
realpath(p) ==
    LET parts == Resolve(PySplit(p, <<SEP>>), <<>>)
    IN  IF parts = <<>> THEN <<SEP>> ELSE JoinAll(parts)

\* docs_path: the directory of the script
DOCS_PATH == <<"/","r","/","d","o","c","s","/","s","o","u","r","c","e","/","e","x","a","m","p","l","e","s">>

\* base_path
BASE_PATH == realpath(join(DOCS_PATH, <<".",".","/",".",".","/",".",".","/","e","x","a","m","p","l","e","s">>))

---------------------------------------------------------------------------
(* The environment: the trees, the texts and the arguments of a run *)

\* The files a tree may hold, in the order os.walk lists them: the top
\* directory first, then the directory w.
W_DIR == join(BASE_PATH, <<"w">>)

Candidates ==
    << [dirname |-> BASE_PATH, name |-> <<"a",".","e","n","a","m","l">>],
       [dirname |-> BASE_PATH, name |-> <<"a",".","b",".","e","n","a","m","l">>],
       [dirname |-> BASE_PATH, name |-> <<"c",".","p","y">>],
       [dirname |-> W_DIR,     name |-> <<"a",".","e","n","a","m","l">>],
       [dirname |-> W_DIR,     name |-> <<"b","_","c",".","e","n","a","m","l">>] >>

\* A docstring with a backquoted identifier and the marker on its own line
TEXT_DOC ==
    TRIPLE_QUOTE \o <<BACKQUOTE, "d", BACKQUOTE, NL>> \o MARKER \o <<NL>> \o
    TRIPLE_QUOTE \o <<NL, "x">>

\* The marker only inside a longer line
TEXT_SUBSTRING ==
    TRIPLE_QUOTE \o <<"d", NL, "#", " ">> \o MARKER \o <<NL>> \o TRIPLE_QUOTE

\* No marker
TEXT_UNMARKED == TRIPLE_QUOTE \o <<"d">> \o TRIPLE_QUOTE

\* The marker line and no delimiter
TEXT_NO_DELIMITER == <<"x", NL>> \o MARKER \o <<NL>>

\* The marker line after the only delimiter
TEXT_ONE_DELIMITER == TRIPLE_QUOTE \o <<"d", NL>> \o MARKER \o <<NL>>

Texts == {TEXT_DOC, TEXT_SUBSTRING, TEXT_UNMARKED, TEXT_NO_DELIMITER,
          TEXT_ONE_DELIMITER}

\* The data of candidate k: any text for an .enaml file; main never opens
\* another file
TextsOf(k) == IF HasEnamlExt(Candidates[k].name) THEN Texts ELSE {TEXT_DOC}

WhiteLists ==
    { <<>>,
      << <<"a",".","e","n","a","m","l">> >>,
      << <<"w","/","a",".","e","n","a","m","l">>, <<"b",".","e","n","a","m","l">> >> }

\* sys.path when main starts
SITE_PATH == << <<"/","l","i","b">> >>

\* A document a former run left
STALE == <<"stale">>

RECURSIVE Sorted(_)
Sorted(S) ==
    IF S = {} THEN <<>>
    ELSE LET m == CHOOSE x \in S : \A y \in S : x <= y
         IN  <<m>> \o Sorted(S \ {m})

Trees ==
    UNION { { [k \in 1..Cardinality(S) |->
                 [dirname |-> Candidates[Sorted(S)[k]].dirname,
                  name    |-> Candidates[Sorted(S)[k]].name,
                  data    |-> d[Sorted(S)[k]]]]
              : d \in {e \in [S -> Texts] : \A k \in S : e[k] \in TextsOf(k)} }
            : S \in {R \in SUBSET DOMAIN Candidates : Cardinality(R) <= MaxFiles} }

CacheDirsOf(tree) ==
    {enaml_cache_dir(fname(tree[k])) : k \in DOMAIN tree}

NoOutcome == [import_ok |-> FALSE, cache_created |-> FALSE, snapshot_ok |-> FALSE]

\* What __import__ and save_snapshot_of_module can do: the import raises
\* before or after the importer wrote its cache, or returns (a module that
\* was already loaded is returned without a new cache), and the snapshot
\* then raises or is saved.
Outcomes ==
    { o \in [import_ok : BOOLEAN, cache_created : BOOLEAN, snapshot_ok : BOOLEAN] :
        ~o.import_ok => ~o.snapshot_ok }

---------------------------------------------------------------------------
(* The run of main *)

Init ==
    /\ files \in Trees
    /\ white_list \in WhiteLists
    /\ sys_path = SITE_PATH
    /\ cache_dirs \in SUBSET CacheDirsOf(files)
    /\ docs \in {<<>>, rst_path(DOCS_PATH, <<"a">>) :> STALE}
    /\ pc = "walk"
    /\ idx = 1
    /\ old_python_path = <<>>
    /\ snapshot_success = FALSE
    /\ raised = ""
    /\ passed = <<>>
    /\ captured = <<>>
    /\ written = <<>>
    /\ images = {}
    /\ last_capture = NoOutcome
    /\ cleanup_miss = FALSE
    /\ script_text = <<>>
    /\ extracted = Returned(<<>>)

\* main, lines 212-220: a file the loop does not hand on
SkipFile ==
    /\ pc = "walk"
    /\ idx <= Len(files)
    /\ ~IsSelected(files[idx], white_list)
    /\ idx' = idx + 1
    /\ UNCHANGED <<files, white_list, sys_path, cache_dirs, docs, pc,
                   old_python_path, snapshot_success, raised, passed,
                   captured, written, images, last_capture, cleanup_miss,
                   script_text, extracted>>

\* main, line 221, and generate_example_doc, lines 142-158
CallGenerate ==
    /\ pc = "walk"
    /\ idx <= Len(files)
    /\ IsSelected(files[idx], white_list)
    /\ passed' = Append(passed, fname(files[idx]))
    /\ old_python_path' = sys_path
    /\ sys_path' = sys_path \o <<dirname(fname(files[idx]))>>
    /\ snapshot_success' = FALSE
    /\ pc' = "capture"
    /\ UNCHANGED <<files, white_list, cache_dirs, docs, idx, raised, captured,
                   written, images, last_capture, cleanup_miss, script_text,
                   extracted>>

\* generate_example_doc, lines 159-171: the import, the snapshot, the
\* except clause and the cleanup of the finally clause
Capture ==
    /\ pc = "capture"
    /\ \E o \in Outcomes :
         LET script_path == fname(files[idx])
             name == script_name(script_path)
             cache_dir == enaml_cache_dir(script_path)
             after_import == IF o.cache_created
                             THEN cache_dirs \cup {cache_dir} ELSE cache_dirs
             success == o.import_ok /\ o.snapshot_ok
             removed == rmtree(after_import, cache_dir)
             next == IF removed.raised = ""
                     THEN [pc |-> "restore", idx |-> idx]
                     ELSE AfterException(idx)
         IN  /\ last_capture' = o
             /\ captured' = Append(captured, script_path)
             /\ snapshot_success' = success
             /\ images' = IF success
                          THEN images \cup {image_path(DOCS_PATH, name)}
                          ELSE images
             /\ cleanup_miss' = (cache_dir \notin after_import)
             /\ cache_dirs' = IF removed.raised = ""
                              THEN removed.value ELSE after_import
             /\ raised' = removed.raised
             /\ pc' = next.pc
             /\ idx' = next.idx
    /\ UNCHANGED <<files, white_list, sys_path, docs, old_python_path, passed,
                   written, script_text, extracted>>

\* generate_example_doc, line 174
RestorePath ==
    /\ pc = "restore"
    /\ sys_path' = old_python_path
    /\ pc' = "render"
    /\ UNCHANGED <<files, white_list, cache_dirs, docs, idx, old_python_path,
                   snapshot_success, raised, passed, captured, written, images,
                   last_capture, cleanup_miss, script_text, extracted>>

\* generate_example_doc, lines 176-192, when the docstring is extracted
WriteDoc ==
    /\ pc = "render"
    /\ LET script_path == fname(files[idx])
           got == extract_docstring(files[idx].data)
       IN  /\ got.raised = ""
           /\ script_text' = files[idx].data
           /\ extracted' = got
           /\ docs' = (rst_path(DOCS_PATH, script_name(script_path)) :>
                         example_doc_rst(script_path, got.value,
                                         snapshot_success)) @@ docs
           /\ written' = Append(written, script_path)
    /\ pc' = "walk"
    /\ idx' = idx + 1
    /\ UNCHANGED <<files, white_list, sys_path, cache_dirs, old_python_path,
                   snapshot_success, raised, passed, captured, images,
                   last_capture, cleanup_miss>>

\* generate_example_doc, lines 176-179, when extract_docstring raises
ExtractRaises ==
    /\ pc = "render"
    /\ LET got == extract_docstring(files[idx].data)
           next == AfterException(idx)
       IN  /\ got.raised # ""
           /\ script_text' = files[idx].data
           /\ extracted' = got
           /\ raised' = got.raised
           /\ pc' = next.pc
           /\ idx' = next.idx
    /\ UNCHANGED <<files, white_list, sys_path, cache_dirs, docs,
                   old_python_path, snapshot_success, passed, captured,
                   written, images, last_capture, cleanup_miss>>

\* main, line 211: the walk is over
Finish ==
    /\ pc = "walk"
    /\ idx > Len(files)
    /\ pc' = "done"
    /\ UNCHANGED <<files, white_list, sys_path, cache_dirs, docs, idx,
                   old_python_path, snapshot_success, raised, passed,
                   captured, written, images, last_capture, cleanup_miss,
                   script_text, extracted>>

Next ==
    \/ SkipFile
    \/ CallGenerate
    \/ Capture
    \/ RestorePath
    \/ WriteDoc
    \/ ExtractRaises
    \/ Finish

Spec == Init /\ [][Next]_vars

---------------------------------------------------------------------------
(* extract_docstring on its own, over every text of two characters *)

SourceTexts == UNION {[1..n -> {QUOTE, "d"}] : n \in 0..MaxLen}

InitExtract ==
    /\ files = <<>>
    /\ white_list = <<>>
    /\ sys_path = SITE_PATH
    /\ cache_dirs = {}
    /\ docs = <<>>
    /\ pc = "extract"
    /\ idx = 1
    /\ old_python_path = <<>>
    /\ snapshot_success = FALSE
    /\ raised = ""
    /\ passed = <<>>
    /\ captured = <<>>
    /\ written = <<>>
    /\ images = {}
    /\ last_capture = NoOutcome
    /\ cleanup_miss = FALSE
    /\ script_text \in SourceTexts
    /\ extracted = Returned(<<>>)

\* generate_example_doc, line 179: the call of extract_docstring
Extract ==
    /\ pc = "extract"
    /\ extracted' = extract_docstring(script_text)
    /\ pc' = "extracted"
    /\ UNCHANGED <<files, white_list, sys_path, cache_dirs, docs, idx,
                   old_python_path, snapshot_success, raised, passed,
                   captured, written, images, last_capture, cleanup_miss,
                   script_text>>

NextExtract == Extract

SpecExtract == InitExtract /\ [][NextExtract]_vars

---------------------------------------------------------------------------
(* What the properties speak of *)

\* The place of the first delimiter of s at or after place from, 0 if none
NextDelimiter(s, from) ==
    LET at == {i \in from..Len(s) : StartsWithAt(s, TRIPLE_QUOTE, i)}
    IN  IF at = {} THEN 0 ELSE CHOOSE i \in at : \A j \in at : i <= j

\* The occurrences of the delimiter in s from place from on, none
\* overlapping another
RECURSIVE DelimitersFrom(_, _)
DelimitersFrom(s, from) ==
    LET i == NextDelimiter(s, from)
    IN  IF i = 0 THEN 0 ELSE 1 + DelimitersFrom(s, i + Len(TRIPLE_QUOTE))

DelimiterCount(s) == DelimitersFrom(s, 1)

\* The text strictly between the first and the second delimiter of s
BetweenFirstTwo(s) ==
    LET first == NextDelimiter(s, 1)
        second == NextDelimiter(s, first + Len(TRIPLE_QUOTE))
    IN  SubSeq(s, first + Len(TRIPLE_QUOTE), second - 1)

LineEnds == {"\n", "\r"}

\* The marker fills a whole line of data
MarkerIsWholeLine(data) ==
    \E i \in DOMAIN data :
        /\ StartsWithAt(data, MARKER, i)
        /\ i = 1 \/ data[i - 1] \in LineEnds
        /\ i + Len(MARKER) > Len(data) \/ data[i + Len(MARKER)] \in LineEnds

\* The three conditions of the choice, stated on the file itself
MeetsConditions(file) ==
    /\ EndsWith(file.name, <<".","e","n","a","m","l">>)
    /\ white_list # <<>> =>
         \E i \in DOMAIN white_list :
            EndsWith(file.dirname \o <<"/">> \o file.name, white_list[i])
    /\ MarkerIsWholeLine(file.data)

\* The paths of the first n files of the walk that meet the conditions
RECURSIVE ChosenAmong(_)
ChosenAmong(n) ==
    IF n = 0 THEN <<>>
    ELSE IF MeetsConditions(files[n])
         THEN Append(ChosenAmong(n - 1),
                     files[n].dirname \o <<"/">> \o files[n].name)
         ELSE ChosenAmong(n - 1)

\* The files main's loop has reached
Reached == IF pc \in {"walk", "done"} THEN idx - 1 ELSE idx

FileAt(path) == files[CHOOSE k \in DOMAIN files : fname(files[k]) = path]

Last(s) == s[Len(s)]

\* The file name up to its first '.'
NameUpToFirstDot(path) ==
    LET b == basename(path)
        dots == {i \in DOMAIN b : b[i] = "."}
    IN  IF dots = {} THEN b
        ELSE SubSeq(b, 1, (CHOOSE i \in dots : \A j \in dots : i <= j) - 1)

DocPathOf(path) ==
    DOCS_PATH \o <<"/","e","x","_">> \o NameUpToFirstDot(path) \o
    <<".","r","s","t">>

\* The document is the one generate_example_doc renders from the file
RenderedFrom(doc, path) ==
    \E success \in BOOLEAN :
        doc = example_doc_rst(path, extract_docstring(FileAt(path).data).value,
                              success)

\* The last written file that has the script name of path
LastNamedLike(path) ==
    LET same == {k \in DOMAIN written :
                    NameUpToFirstDot(written[k]) = NameUpToFirstDot(path)}
    IN  written[CHOOSE k \in same : \A j \in same : j <= k]

---------------------------------------------------------------------------
(* The properties *)

EveryChosenIsWellFormed ==
    \A k \in DOMAIN files :
        MeetsConditions(files[k]) => DelimiterCount(files[k].data) >= 2

\* C1: when every chosen example has a well-formed docstring, no exception
\* leaves main whatever imports and snapshots raise, and at the end of the
\* run a document has been written for every chosen example.
C1_FailedCaptureAbortsNothing ==
    EveryChosenIsWellFormed =>
        /\ raised = ""
        /\ pc = "done" =>
             \A k \in DOMAIN files :
                MeetsConditions(files[k]) =>
                    /\ fname(files[k]) \in Range(written)
                    /\ DocPathOf(fname(files[k])) \in DOMAIN docs

\* C2: outside the capture step (before it, after it returned, after an
\* exception left it) sys.path is what it was when the run started.
C2_SysPathRestoredOnEveryExit ==
    pc \notin {"capture", "restore"} => sys_path = SITE_PATH

\* C3: a cleanup that finds no cache directory raises nothing: the run is
\* not left by the error of the removal.
C3_CleanupMissRaisesNothing ==
    cleanup_miss => raised # "FileNotFoundError" /\ pc # "raised"

\* C4: once the capture step of an example is over, on the success path and
\* on the failure path, by return or by exception, no cache directory
\* stands beside that example.
C4_NoCacheAfterCapture ==
    \A k \in DOMAIN captured :
        (k < Len(captured) \/ pc # "capture") =>
            (dirname(captured[k]) \o <<"/">> \o ENAML_CACHE) \notin cache_dirs

\* C4, witness: the second capture of a run, in another directory than the
\* first, failed after the importer had written its cache.
C4_Witness ==
    /\ pc = "restore"
    /\ last_capture.cache_created
    /\ ~last_capture.import_ok
    /\ Len(captured) = 2
    /\ dirname(captured[1]) # dirname(captured[2])

\* C5: a text with fewer than two delimiters makes extract_docstring raise.
C5_FewerThanTwoDelimitersRaises ==
    pc = "extracted" /\ DelimiterCount(script_text) < 2 =>
        extracted.raised # ""

\* C6: a text with at least two delimiters yields exactly the text between
\* the first and the second, whatever follows the second.
C6_TextBetweenFirstTwoDelimiters ==
    pc = "extracted" /\ DelimiterCount(script_text) >= 2 =>
        extracted = [raised |-> "", value |-> BetweenFirstTwo(script_text)]

\* C6, witness: a docstring that is not empty, followed by a third delimiter.
C6_Witness ==
    /\ pc = "extracted"
    /\ DelimiterCount(script_text) >= 3
    /\ extracted.raised = ""
    /\ extracted.value # <<>>

C8_ExtractionFailureStopsTheRun ==
    /\ raised = "IndexError" =>
          /\ pc = "raised"
          /\ Last(passed) = fname(files[idx])
          /\ captured = passed
          /\ written = SubSeq(passed, 1, Len(passed) - 1)
          /\ \A k \in DOMAIN written : DocPathOf(written[k]) \in DOMAIN docs
    /\ \A k \in DOMAIN written :
          DelimiterCount(FileAt(written[k]).data) >= 1

\* C8, witness: the extraction failed after a document was written and
\* before a later example that was chosen.
C8_Witness ==
    /\ raised = "IndexError"
    /\ Len(written) >= 1
    /\ idx < Len(files)
    /\ \E k \in (idx + 1)..Len(files) : MeetsConditions(files[k])

ImageRefs(doc) == {i \in DOMAIN doc : doc[i] = IMAGE_REF}

====
